---- MODULE Spec2Model ----
(***************************************************************************)
(* Semantic versions and version ranges (vector-of-bool/semver).          *)
(*                                                                         *)
(* Two range implementations live in the repository:                      *)
(*   - the basis/kind one (a base version plus one of four kinds),        *)
(*   - the two-endpoint one (a half-open interval [low, high)).           *)
(* Every operation is a pure function of its operands; the state machine  *)
(* below draws operands from bounded sets and applies one operation.      *)
(***************************************************************************)
EXTENDS Integers, Sequences, FiniteSets, TLC

VARIABLES
    a,      \* first range operand (*this)
    b,      \* second range operand (other)
    va,     \* first version operand
    vb,     \* second version operand
    str,    \* string handed to a parser
    seq,    \* sequence of versions handed to max_satisfying
    op,     \* the operation that was applied ("none" before the call)
    res     \* what the operation returned

vars == <<a, b, va, vb, str, seq, op, res>>

(***************************************************************************)
(* Bounds of the model                                                     *)
(***************************************************************************)
\* components of the operands are 0..MaxComp, or component_max
MaxComp == 1
\* prerelease tags of the operands have at most MaxPreLen identifiers
MaxPreLen == 1

\* longest sequence of versions handed to max_satisfying
MaxSeqLen == 3

(***************************************************************************)
(* version                                                                 *)
(***************************************************************************)
\* std::numeric_limits<int>::max()
component_max == 2147483647

\* the value an int holding component_max has after ++ (two's complement,
\* increment taken modulo 2^32)
int_min == (-component_max) - 1

\* int_type x; x++
int_increment(x) == IF x = component_max THEN int_min ELSE x + 1

\* a prerelease identifier is numeric or alphanumeric; val is the number,
\* or the rank of the alphanumeric identifier in ASCII order
PreIdents == {[numeric |-> TRUE, val |-> 1], [numeric |-> FALSE, val |-> 1]}

RECURSIVE SeqsUpTo(_, _)
SeqsUpTo(S, n) ==
    IF n = 0 THEN {<< >>}
    ELSE LET shorter == SeqsUpTo(S, n - 1)
         IN  shorter \cup {Append(s, x) : s \in shorter, x \in S}

Prereleases == SeqsUpTo(PreIdents, MaxPreLen)

Components == (0..MaxComp) \cup {component_max}

\* struct version { major, minor, patch, prerelease }
version(M, m, p, pre) == [major |-> M, minor |-> m, patch |-> p, prerelease |-> pre]

\* version(): all components zero, no prerelease
version_default == version(0, 0, 0, << >>)

max_version == version(component_max, component_max, component_max, << >>)

Versions == {version(M, m, p, pre) : M \in Components, m \in Components,
                                     p \in Components, pre \in Prereleases}

is_prerelease(v) == v.prerelease # << >>

\* three-way comparison of two identifiers
ident_compare(x, y) ==
    IF x.numeric /\ ~y.numeric THEN "less"
    ELSE IF ~x.numeric /\ y.numeric THEN "greater"
    ELSE IF x.val < y.val THEN "less"
    ELSE IF x.val > y.val THEN "greater"
    ELSE "equivalent"

\* three-way comparison of two non-empty-or-empty identifier sequences,
\* position by position; a strict prefix is less
RECURSIVE idents_compare(_, _)
idents_compare(l, r) ==
    IF l = << >> /\ r = << >> THEN "equivalent"
    ELSE IF l = << >> THEN "less"
    ELSE IF r = << >> THEN "greater"
    ELSE LET o == ident_compare(Head(l), Head(r))
         IN  IF o # "equivalent" THEN o ELSE idents_compare(Tail(l), Tail(r))

\* compare(const prerelease&, const prerelease&): no prerelease is the
\* highest precedence
prerelease_compare(l, r) ==
    IF l = << >> /\ r = << >> THEN "equivalent"
    ELSE IF l = << >> THEN "greater"
    ELSE IF r = << >> THEN "less"
    ELSE idents_compare(l, r)

prerelease_lt(l, r) == prerelease_compare(l, r) = "less"

\* order compare(const version& lhs, const version& rhs)
compare(lhs, rhs) ==
    IF lhs.major < rhs.major THEN "less"
    ELSE IF lhs.major > rhs.major THEN "greater"
    ELSE IF lhs.minor < rhs.minor THEN "less"
    ELSE IF lhs.minor > rhs.minor THEN "greater"
    ELSE IF lhs.patch < rhs.patch THEN "less"
    ELSE IF lhs.patch > rhs.patch THEN "greater"
    ELSE prerelease_compare(lhs.prerelease, rhs.prerelease)

\* DEF_OP(==, ...) ... DEF_OP(>=, ...)
op_eq(lhs, rhs) == LET o == compare(lhs, rhs) IN o = "equivalent"
op_ne(lhs, rhs) == LET o == compare(lhs, rhs) IN o # "equivalent"
\* operator< that also accepts equivalent operands
op_lt_or_equivalent(lhs, rhs) == LET o == compare(lhs, rhs) IN o # "greater"
op_lt(lhs, rhs) == LET o == compare(lhs, rhs) IN o = "less"
op_gt(lhs, rhs) == LET o == compare(lhs, rhs) IN o = "greater"
op_le(lhs, rhs) == LET o == compare(lhs, rhs) IN o = "less" \/ o = "equivalent"
op_ge(lhs, rhs) == LET o == compare(lhs, rhs) IN o = "greater" \/ o = "equivalent"

(***************************************************************************)
(* range, basis/kind implementation                                        *)
(***************************************************************************)
exact              == "exact"
same_minor_version == "same_minor_version"
same_major_version == "same_major_version"
anything_greater   == "anything_greater"

kind_t == {exact, same_minor_version, same_major_version, anything_greater}

\* range(version v, kind_t k)
range(v, k) == [base_version |-> v, kind |-> k]

Ranges == {range(v, k) : v \in Versions, k \in kind_t}

\* std::optional<range>
nullopt == [has_value |-> FALSE]
some(r) == [has_value |-> TRUE, value |-> r]

\* the outcome of assert(false) / std::terminate()
terminate == [terminated |-> TRUE]

\* whether a call ended the program instead of returning
terminated(x) == "terminated" \in DOMAIN x

\* a bool handed back by a call that returned
returns(x) == [value |-> x]

\* first_bad_version() that leaves the patch of the base version in place
first_bad_version_keeps_patch(r) ==
    LET ret == r.base_version
    IN  IF r.kind = exact
        THEN [ret EXCEPT !.patch = int_increment(@)]
        ELSE IF r.kind = same_minor_version
        THEN [ret EXCEPT !.prerelease = << >>, !.minor = int_increment(@)]
        ELSE IF r.kind = same_major_version
        THEN [ret EXCEPT !.prerelease = << >>, !.minor = 0,
                         !.major = int_increment(@)]
        ELSE terminate

\* first_bad_version() that carries the prerelease of a same_minor base over
first_bad_version_keeps_prerelease(r) ==
    LET ret == r.base_version
    IN  IF r.kind = exact
        THEN [ret EXCEPT !.patch = int_increment(@)]
        ELSE IF r.kind = same_minor_version
        THEN [ret EXCEPT !.patch = 0, !.minor = int_increment(@)]
        ELSE IF r.kind = same_major_version
        THEN [ret EXCEPT !.patch = 0, !.prerelease = << >>, !.minor = 0,
                         !.major = int_increment(@)]
        ELSE terminate

\* version range::first_bad_version()
first_bad_version(r) ==
    LET ret == r.base_version
    IN  IF r.kind = exact
        THEN [ret EXCEPT !.patch = int_increment(@)]
        ELSE IF r.kind = same_minor_version
        THEN [ret EXCEPT !.patch = 0, !.prerelease = << >>,
                         !.minor = int_increment(@)]
        ELSE IF r.kind = same_major_version
        THEN [ret EXCEPT !.patch = 0, !.prerelease = << >>, !.minor = 0,
                         !.major = int_increment(@)]
        ELSE terminate

\* std::tie(minor, patch, prerelease) < std::tie(minor, patch, prerelease)
tie_minor_patch_pre_lt(l, r) ==
    \/ l.minor < r.minor
    \/ /\ ~(r.minor < l.minor)
       /\ \/ l.patch < r.patch
          \/ /\ ~(r.patch < l.patch)
             /\ prerelease_lt(l.prerelease, r.prerelease)

\* std::tie(patch, prerelease) < std::tie(patch, prerelease)
tie_patch_pre_lt(l, r) ==
    \/ l.patch < r.patch
    \/ /\ ~(r.patch < l.patch)
       /\ prerelease_lt(l.prerelease, r.prerelease)

\* contains(version) without the prerelease check it starts with
contains_any_prerelease(r, ver) ==
    IF r.kind = anything_greater THEN op_ge(ver, r.base_version)
    ELSE IF r.kind = same_major_version
    THEN IF ver.major # r.base_version.major THEN FALSE
         ELSE ~tie_minor_patch_pre_lt(ver, r.base_version)
    ELSE IF r.kind = same_minor_version
    THEN IF <<ver.major, ver.minor>> # <<r.base_version.major, r.base_version.minor>>
         THEN FALSE
         ELSE ~tie_patch_pre_lt(ver, r.base_version)
    ELSE IF r.kind = exact THEN op_eq(ver, r.base_version)
    ELSE terminate

\* bool range::contains(const version& ver)
contains(r, ver) ==
    IF is_prerelease(ver) # is_prerelease(r.base_version) THEN FALSE
    ELSE IF r.kind = anything_greater THEN op_ge(ver, r.base_version)
    ELSE IF r.kind = same_major_version
    THEN IF ver.major # r.base_version.major THEN FALSE
         ELSE ~tie_minor_patch_pre_lt(ver, r.base_version)
    ELSE IF r.kind = same_minor_version
    THEN IF <<ver.major, ver.minor>> # <<r.base_version.major, r.base_version.minor>>
         THEN FALSE
         ELSE ~tie_patch_pre_lt(ver, r.base_version)
    ELSE IF r.kind = exact THEN op_eq(ver, r.base_version)
    ELSE terminate

\* intersection() that hands back an open-ended `other` as it is when *this
\* is a same_major range
RECURSIVE intersection_keeps_other(_, _)
intersection_keeps_other(this, other) ==
    IF op_lt(other.base_version, this.base_version)
    THEN intersection_keeps_other(other, this)
    ELSE
    LET other_base_verison == other.base_version
        this_base_version  == this.base_version
        other_kind         == other.kind
        this_kind          == this.kind
    IN  IF this_kind = anything_greater THEN some(other)
        ELSE IF other_base_verison.major > this_base_version.major THEN nullopt
        ELSE IF this_kind = same_major_version THEN some(other)
        ELSE IF other_base_verison.minor > this_base_version.minor THEN nullopt
        ELSE IF this_kind = same_minor_version
        THEN IF other_kind = anything_greater \/ other_kind = same_major_version
             THEN some(range(other_base_verison, same_minor_version))
             ELSE some(other)
        ELSE IF other_base_verison.patch > this_base_version.patch THEN nullopt
        ELSE IF this_kind = exact THEN some(this)
        ELSE terminate

\* std::optional<range> range::intersection(const range& other)
RECURSIVE intersection(_, _)
intersection(this, other) ==
    IF op_lt(other.base_version, this.base_version)
    THEN intersection(other, this)
    ELSE
    LET other_base_verison == other.base_version
        this_base_version  == this.base_version
        other_kind         == other.kind
        this_kind          == this.kind
    IN  IF this_kind = anything_greater THEN some(other)
        ELSE IF other_base_verison.major > this_base_version.major THEN nullopt
        ELSE IF this_kind = same_major_version
        THEN IF other_kind = anything_greater
             THEN some(range(other_base_verison, same_major_version))
             ELSE some(other)
        ELSE IF other_base_verison.minor > this_base_version.minor THEN nullopt
        ELSE IF this_kind = same_minor_version
        THEN IF other_kind = anything_greater \/ other_kind = same_major_version
             THEN some(range(other_base_verison, same_minor_version))
             ELSE some(other)
        ELSE IF other_base_verison.patch > this_base_version.patch THEN nullopt
        ELSE IF this_kind = exact THEN some(this)
        ELSE terminate

\* union_() that finds `other` too high by its major component alone
RECURSIVE union_compares_major(_, _)
union_compares_major(this, other) ==
    IF op_lt(other.base_version, this.base_version)
    THEN union_compares_major(other, this)
    ELSE
    LET other_version == other.base_version
        this_verison  == this.base_version
        other_kind    == other.kind
        this_kind     == this.kind
    IN  IF this_kind = anything_greater THEN some(this)
        ELSE
        LET this_first_bad_version == first_bad_version(this)
        IN  IF terminated(this_first_bad_version) THEN terminate
            ELSE IF other_version.major > this_first_bad_version.major THEN nullopt
            ELSE IF op_eq(other_version, this_first_bad_version)
            THEN IF other_kind = anything_greater
                 THEN some(range(this_verison, anything_greater))
                 ELSE IF other_kind = same_major_version /\ this_kind # same_major_version
                 THEN some(range(this_verison, same_major_version))
                 ELSE IF other_kind = same_minor_version /\ this_kind = exact
                 THEN some(range(this_verison, same_minor_version))
                 ELSE nullopt
            ELSE IF other_kind = anything_greater
            THEN some(range(this_verison, anything_greater))
            ELSE
            LET other_first_bad_version == first_bad_version(other)
            IN  IF terminated(other_first_bad_version) THEN terminate
                ELSE IF op_ge(this_first_bad_version, other_first_bad_version)
                THEN some(this)
                ELSE some(range(this_verison, other_kind))

\* std::optional<range> range::union_(const range& other)
RECURSIVE union_(_, _)
union_(this, other) ==
    IF op_lt(other.base_version, this.base_version)
    THEN union_(other, this)
    ELSE
    LET other_version == other.base_version
        this_verison  == this.base_version
        other_kind    == other.kind
        this_kind     == this.kind
    IN  IF this_kind = anything_greater THEN some(this)
        ELSE
        LET this_first_bad_version == first_bad_version(this)
        IN  IF terminated(this_first_bad_version) THEN terminate
            ELSE IF op_gt(other_version, this_first_bad_version) THEN nullopt
            ELSE IF op_eq(other_version, this_first_bad_version)
            THEN IF other_kind = anything_greater
                 THEN some(range(this_verison, anything_greater))
                 ELSE IF other_kind = same_major_version /\ this_kind # same_major_version
                 THEN some(range(this_verison, same_major_version))
                 ELSE IF other_kind = same_minor_version /\ this_kind = exact
                 THEN some(range(this_verison, same_minor_version))
                 ELSE nullopt
            ELSE IF other_kind = anything_greater
            THEN some(range(this_verison, anything_greater))
            ELSE
            LET other_first_bad_version == first_bad_version(other)
            IN  IF terminated(other_first_bad_version) THEN terminate
                ELSE IF op_ge(this_first_bad_version, other_first_bad_version)
                THEN some(this)
                ELSE some(range(this_verison, other_kind))

\* contains(range) without the early return for an open-ended `other`
contains_range_open_other(this, other) ==
    LET other_kind    == other.kind
        other_version == other.base_version
        this_version  == this.base_version
    IN  IF op_lt(other_version, this_version) THEN returns(FALSE)
        ELSE IF this.kind = anything_greater THEN returns(TRUE)
        ELSE LET this_first_bad_version  == first_bad_version(this)
                 other_first_bad_version == first_bad_version(other)
             IN  IF terminated(this_first_bad_version)
                    \/ terminated(other_first_bad_version)
                 THEN terminate
                 ELSE returns(op_ge(this_first_bad_version, other_first_bad_version))

\* bool range::contains(const range& other); the bool is wrapped by returns()
\* and a call that ends the program gives terminate
contains_range(this, other) ==
    LET other_kind    == other.kind
        other_version == other.base_version
        this_version  == this.base_version
    IN  IF op_lt(other_version, this_version) THEN returns(FALSE)
        ELSE IF this.kind = anything_greater THEN returns(TRUE)
        ELSE IF other_kind = anything_greater THEN returns(FALSE)
        ELSE LET this_first_bad_version  == first_bad_version(this)
                 other_first_bad_version == first_bad_version(other)
             IN  IF terminated(this_first_bad_version)
                    \/ terminated(other_first_bad_version)
                 THEN terminate
                 ELSE returns(op_ge(this_first_bad_version, other_first_bad_version))

\* bool range::overlaps(const range& other)
overlaps(this, other) ==
    contains(this, other.base_version) \/ contains(other, this.base_version)

\* friend bool operator==(const range& lhs, const range& rhs)
range_eq(lhs, rhs) == lhs.kind = rhs.kind /\ op_eq(lhs.base_version, rhs.base_version)

\* operator== of two std::optional<range>
optional_eq(x, y) ==
    IF x.has_value /\ y.has_value THEN range_eq(x.value, y.value)
    ELSE x.has_value = y.has_value

(***************************************************************************)
(* Strings, version::parse and version::to_string                          *)
(***************************************************************************)
\* a string is a sequence of characters
Digits == <<"0", "1", "2", "3", "4", "5", "6", "7", "8", "9">>
Letters == <<"a", "b", "c">>

isdigit(c) == \E i \in 1..Len(Digits) : Digits[i] = c
isletter(c) == \E i \in 1..Len(Letters) : Letters[i] = c
digit_value(c) == (CHOOSE i \in 1..Len(Digits) : Digits[i] = c) - 1
letter_rank(c) == CHOOSE i \in 1..Len(Letters) : Letters[i] = c

\* decimal rendering of a non-negative int
RECURSIVE int_to_string(_)
int_to_string(n) ==
    IF n < 10 THEN <<Digits[n + 1]>>
    ELSE Append(int_to_string(n \div 10), Digits[(n % 10) + 1])

ident_to_string(x) == IF x.numeric THEN int_to_string(x.val) ELSE <<Letters[x.val]>>

RECURSIVE prerelease_to_string(_)
prerelease_to_string(pre) ==
    IF Len(pre) = 1 THEN ident_to_string(Head(pre))
    ELSE ident_to_string(Head(pre)) \o <<".">> \o prerelease_to_string(Tail(pre))

\* std::string version::to_string()
to_string(v) ==
    int_to_string(v.major) \o <<".">> \o int_to_string(v.minor) \o <<".">>
        \o int_to_string(v.patch)
        \o (IF is_prerelease(v) THEN <<"-">> \o prerelease_to_string(v.prerelease)
            ELSE << >>)

\* the exceptions of the two parsers
invalid_version(s) == [ok |-> FALSE, error |-> "invalid_version", string |-> s]
invalid_range(s)   == [ok |-> FALSE, error |-> "invalid_range", string |-> s]
parsed(x)          == [ok |-> TRUE, value |-> x]

\* the length of the longest prefix of s made of digits
RECURSIVE digits_prefix_len(_)
digits_prefix_len(s) ==
    IF s = << >> \/ ~isdigit(Head(s)) THEN 0 ELSE 1 + digits_prefix_len(Tail(s))

\* the value of a string of digits; -1 when it does not fit an int
RECURSIVE digits_value(_, _)
digits_value(s, acc) ==
    IF s = << >> THEN acc
    ELSE LET d == digit_value(Head(s))
         IN  IF acc > (component_max - d) \div 10 THEN -1
             ELSE digits_value(Tail(s), acc * 10 + d)

\* a numeric component at the head of s: its value and what follows it
parse_component(s) ==
    LET n == digits_prefix_len(s)
        val == digits_value(SubSeq(s, 1, n), 0)
    IN  IF n = 0 \/ val < 0 THEN [ok |-> FALSE]
        ELSE [ok |-> TRUE, value |-> val, rest |-> SubSeq(s, n + 1, Len(s))]

\* dot-separated identifiers up to the end of s
RECURSIVE parse_idents(_)
parse_idents(s) ==
    IF s = << >> THEN [ok |-> FALSE]
    ELSE
    LET n == digits_prefix_len(s)
        first == IF n > 0
                 THEN [ok |-> digits_value(SubSeq(s, 1, n), 0) >= 0,
                       ident |-> [numeric |-> TRUE, val |-> digits_value(SubSeq(s, 1, n), 0)],
                       rest |-> SubSeq(s, n + 1, Len(s))]
                 ELSE IF isletter(Head(s))
                 THEN [ok |-> TRUE,
                       ident |-> [numeric |-> FALSE, val |-> letter_rank(Head(s))],
                       rest |-> Tail(s)]
                 ELSE [ok |-> FALSE]
    IN  IF ~first.ok THEN [ok |-> FALSE]
        ELSE IF first.rest = << >> THEN [ok |-> TRUE, value |-> <<first.ident>>]
        ELSE IF Head(first.rest) # "." THEN [ok |-> FALSE]
        ELSE LET more == parse_idents(Tail(first.rest))
             IN  IF more.ok THEN [ok |-> TRUE, value |-> <<first.ident>> \o more.value]
                 ELSE [ok |-> FALSE]

\* static version version::parse(std::string_view s):
\* major "." minor "." patch ["-" prerelease]
version_parse(s) ==
    LET M == parse_component(s)
    IN  IF ~M.ok \/ M.rest = << >> \/ Head(M.rest) # "." THEN invalid_version(s)
        ELSE
        LET m == parse_component(Tail(M.rest))
        IN  IF ~m.ok \/ m.rest = << >> \/ Head(m.rest) # "." THEN invalid_version(s)
            ELSE
            LET p == parse_component(Tail(m.rest))
            IN  IF ~p.ok THEN invalid_version(s)
                ELSE IF p.rest = << >>
                THEN parsed(version(M.value, m.value, p.value, << >>))
                ELSE IF Head(p.rest) # "-" THEN invalid_version(s)
                ELSE LET pre == parse_idents(Tail(p.rest))
                     IN  IF pre.ok
                         THEN parsed(version(M.value, m.value, p.value, pre.value))
                         ELSE invalid_version(s)

\* version version::next_after(): the next release version; a component at
\* component_max carries into the component above it
next_after(v) ==
    IF v.patch # component_max
    THEN version(v.major, v.minor, v.patch + 1, << >>)
    ELSE IF v.minor # component_max
    THEN version(v.major, v.minor + 1, 0, << >>)
    ELSE version(int_increment(v.major), 0, 0, << >>)

(***************************************************************************)
(* range::parse, basis/kind implementation                                 *)
(***************************************************************************)
\* static range range::parse(std::string_view str)
range_parse(s) ==
    IF s = <<"*">> THEN parsed(range(version_default, anything_greater))
    ELSE IF s = << >> THEN invalid_range(s)
    ELSE
    LET c == Head(s)
        prefixed == c = "=" \/ c = "~" \/ c = "^" \/ c = "+"
        mode == IF c = "=" THEN exact
                ELSE IF c = "~" THEN same_minor_version
                ELSE IF c = "^" THEN same_major_version
                ELSE IF c = "+" THEN anything_greater
                ELSE exact
    IN  IF ~prefixed /\ ~isdigit(c) THEN invalid_range(s)
        ELSE LET bv == version_parse(IF prefixed THEN Tail(s) ELSE s)
             IN  IF bv.ok THEN parsed(range(bv.value, mode)) ELSE bv

(***************************************************************************)
(* range, two-endpoint implementation                                      *)
(***************************************************************************)
\* range(version low, version high)
lh_range(low, high) == [low |-> low, high |-> high]

\* static range everything()
everything == lh_range(version_default, max_version)

\* static range exactly(version v)
exactly(v) == lh_range(v, next_after(v))

\* the condition the constructor asserts: _high > _low
ctor_assertion(r) == op_gt(r.high, r.low)

\* static range range::parse_restricted(std::string_view str)
parse_restricted(s) ==
    IF s = <<"*">> THEN parsed(lh_range(version_default, max_version))
    ELSE IF s = << >> THEN invalid_range(s)
    ELSE
    LET c == Head(s)
    IN  IF c = "=" \/ isdigit(c)
        THEN LET ver == version_parse(IF c = "=" THEN Tail(s) ELSE s)
             IN  IF ver.ok THEN parsed(lh_range(ver.value, next_after(ver.value)))
                 ELSE ver
        ELSE IF c = "~"
        THEN LET ver == version_parse(Tail(s))
             IN  IF ver.ok
                 THEN LET v2 == [ver.value EXCEPT !.patch = component_max]
                      IN  parsed(lh_range(ver.value, next_after(v2)))
                 ELSE ver
        ELSE IF c = "^"
        THEN LET ver == version_parse(Tail(s))
             IN  IF ver.ok
                 THEN LET v2 == [ver.value EXCEPT !.patch = component_max,
                                                  !.minor = component_max]
                      IN  parsed(lh_range(ver.value, next_after(v2)))
                 ELSE ver
        ELSE IF c = "+"
        THEN LET ver == version_parse(Tail(s))
             IN  IF ver.ok THEN parsed(lh_range(ver.value, max_version)) ELSE ver
        ELSE invalid_range(s)

\* str.find('<'): the position of the first '<', 0 when there is none
find_lt(s) ==
    IF \E i \in 1..Len(s) : s[i] = "<"
    THEN CHOOSE i \in 1..Len(s) : s[i] = "<" /\ \A j \in 1..(i - 1) : s[j] # "<"
    ELSE 0

\* parse() that lets a high endpoint equal to the low one through
lh_parse_accepts_equal(s) ==
    LET lt_pos == find_lt(s)
    IN  IF lt_pos = 0 THEN parse_restricted(s)
        ELSE
        LET low  == version_parse(SubSeq(s, 1, lt_pos - 1))
            high == version_parse(SubSeq(s, lt_pos + 1, Len(s)))
        IN  IF ~low.ok THEN low
            ELSE IF ~high.ok THEN high
            ELSE IF op_lt(high.value, low.value) THEN invalid_range(s)
            ELSE parsed(lh_range(low.value, high.value))

\* static range range::parse(std::string_view str)
lh_parse(s) ==
    LET lt_pos == find_lt(s)
    IN  IF lt_pos = 0 THEN parse_restricted(s)
        ELSE
        LET low  == version_parse(SubSeq(s, 1, lt_pos - 1))
            high == version_parse(SubSeq(s, lt_pos + 1, Len(s)))
        IN  IF ~low.ok THEN low
            ELSE IF ~high.ok THEN high
            ELSE IF op_le(high.value, low.value) THEN invalid_range(s)
            ELSE parsed(lh_range(low.value, high.value))

\* (std::max)(x, y) and (std::min)(x, y) on versions
std_max(x, y) == IF op_lt(x, y) THEN y ELSE x
std_min(x, y) == IF op_lt(y, x) THEN y ELSE x

\* bool range::contains(const version& other)
lh_contains(this, other) == op_le(this.low, other) /\ op_gt(this.high, other)

\* std::optional<range> range::intersection(const range& other)
lh_intersection(this, other) ==
    LET low_  == std_max(this.low, other.low)
        high_ == std_min(this.high, other.high)
    IN  IF op_lt(low_, high_) THEN some(lh_range(low_, high_)) ELSE nullopt

\* union_() that gives no range for two ranges with a gap between them
lh_union_refuses_gap(this, other) ==
    LET low_  == std_min(this.low, other.low)
        high_ == std_max(this.high, other.high)
    IN  IF op_lt(this.high, other.low) \/ op_lt(other.high, this.low) THEN nullopt
        ELSE some(lh_range(low_, high_))

\* std::optional<range> range::union_(const range& other)
lh_union(this, other) ==
    LET low_  == std_min(this.low, other.low)
        high_ == std_max(this.high, other.high)
    IN  some(lh_range(low_, high_))

\* bool range::contains(const range& other)
lh_contains_range(this, other) ==
    op_le(this.low, other.low) /\ op_ge(this.high, other.high)

\* overlaps() that only looks whether *this contains the low end of `other`
lh_overlaps_one_way(this, other) == lh_contains(this, other.low)

\* bool range::overlaps(const range& other)
lh_overlaps(this, other) ==
    lh_contains(this, other.low) \/ lh_contains(other, this.low)

\* std::optional<range> diff_before(const range& self, const range& other)
diff_before(self, other) ==
    IF op_ge(self.low, other.low) THEN nullopt
    ELSE some(lh_range(self.low, other.low))

\* diff_after() that builds a range when the two high ends are equal
diff_after_on_equal_high(self, other) ==
    IF op_lt(self.high, other.high) THEN nullopt
    ELSE some(lh_range(other.high, self.high))

\* std::optional<range> diff_after(const range& self, const range& other)
diff_after(self, other) ==
    IF op_le(self.high, other.high) THEN nullopt
    ELSE some(lh_range(other.high, self.high))

\* struct range_difference { before, after }
range_difference(before, after) == [before |-> before, after |-> after]

\* range_difference range::difference(const range& other); the assertion
\* of the no-overlap branch ends the program when it fails
lh_difference(this, other) ==
    IF ~lh_overlaps(this, other)
    THEN IF op_lt(this.low, other.low) THEN range_difference(some(this), nullopt)
         ELSE IF ~op_gt(this.low, other.low) THEN terminate
         ELSE range_difference(nullopt, some(this))
    ELSE range_difference(diff_before(this, other), diff_after(this, other))

\* r.contains(version) of whichever implementation r belongs to
range_contains(r, ver) ==
    IF "kind" \in DOMAIN r THEN contains(r, ver) ELSE lh_contains(r, ver)

\* the loop of max_satisfying(Iter it, const Stop stop), from position i on
\* with the optional `ret` found so far
RECURSIVE max_satisfying_loop(_, _, _, _)
max_satisfying_loop(r, s, i, ret) ==
    IF i > Len(s) THEN ret
    ELSE IF ~range_contains(r, s[i]) THEN max_satisfying_loop(r, s, i + 1, ret)
    ELSE IF ~ret.has_value THEN max_satisfying_loop(r, s, i + 1, some(s[i]))
    ELSE IF op_gt(s[i], ret.value) THEN max_satisfying_loop(r, s, i + 1, some(s[i]))
    ELSE max_satisfying_loop(r, s, i + 1, ret)

\* max_satisfying() whose loop starts at the second element
max_satisfying_skips_first(r, c) == max_satisfying_loop(r, c, 2, nullopt)

\* std::optional<version> max_satisfying(Container&& c)
max_satisfying(r, c) == max_satisfying_loop(r, c, 1, nullopt)

\* the two-endpoint range that stands for a basis/kind range:
\* [base, first_bad_version), or [base, max_version) for anything_greater
two_endpoint(r) ==
    IF r.kind = anything_greater THEN lh_range(r.base_version, max_version)
    ELSE lh_range(r.base_version, first_bad_version(r))

(***************************************************************************)
(* The operands of the examples                                            *)
(***************************************************************************)
Str_1_2_3       == <<"1", ".", "2", ".", "3">>
Str_1_2_3_alpha == <<"1", ".", "2", ".", "3", "-", "a">>
Str_1_2_0       == <<"1", ".", "2", ".", "0">>
Str_1_6_2       == <<"1", ".", "6", ".", "2">>
Str_4_1_2       == <<"4", ".", "1", ".", "2">>
Str_2_0_0       == <<"2", ".", "0", ".", "0">>

V_1_2_3_alpha  == version_parse(Str_1_2_3_alpha).value
R_star         == range_parse(<<"*">>).value
R_plus_1_2_3   == range_parse(<<"+">> \o Str_1_2_3).value
R_plus_1_2_0   == range_parse(<<"+">> \o Str_1_2_0).value
R_caret_1_6_2  == range_parse(<<"^">> \o Str_1_6_2).value
R_4_1_2        == range_parse(Str_4_1_2).value
R_tilde_2_0_0  == range_parse(<<"~">> \o Str_2_0_0).value

ExampleVersions == {V_1_2_3_alpha}
ExampleRanges == {R_star, R_plus_1_2_3, R_plus_1_2_0, R_caret_1_6_2, R_4_1_2,
                  R_tilde_2_0_0}

(***************************************************************************)
(* Operand sets and the values of the variables an operation does not use  *)
(***************************************************************************)
NoRange   == range(version_default, exact)
NoVersion == version_default
NoString  == << >>
NoSeq     == << >>
NoResult  == [has_value |-> FALSE]

Prefixes == {<< >>, <<"=">>, <<"~">>, <<"^">>, <<"+">>}

\* range strings: every prefix before every version, and some that are
\* no range at all
RangeStrings ==
    {p \o to_string(v) : p \in Prefixes, v \in Versions}
        \cup {<<"*">>, << >>, <<"^">>, <<"=">>, <<"a", "1", ".", "0", ".", "0">>,
              <<"1", ".", "0">>, <<"~", "1", ".", "a", ".", "0">>}
        \cup {<<"~">>, <<"+">>, <<"-">>, <<".", "1">>}

\* the endpoints of the two-endpoint operands: the versions 0.0.0 and 0.0.1
\* with and without prerelease, 0.1.0, 1.0.0 and max_version
LhEndpoints ==
    {v \in Versions : v.major = 0 /\ v.minor = 0 /\ v.patch \in {0, 1}}
        \cup {version(0, 1, 0, << >>), version(1, 0, 0, << >>), max_version}

\* the bases of the ranges whose kinds are combined: the versions 0.0.p with
\* and without prerelease, 0.1.0, 1.0.0 and max_version, under every kind
KindVersions ==
    {v \in Versions : v.major = 0 /\ v.minor = 0}
        \cup {version(0, 1, 0, << >>), version(1, 0, 0, << >>), max_version}
KindRanges == {range(v, k) : v \in KindVersions, k \in kind_t}

\* the string "A<B" of two versions
lt_string(A, B) == to_string(A) \o <<"<">> \o to_string(B)

\* strings with a '<': every "A<B" over the endpoints, and some with a side
\* that is no version
LtStrings ==
    {lt_string(A, B) : A \in LhEndpoints, B \in LhEndpoints}
        \cup {<<"<">> \o Str_1_2_3, Str_1_2_3 \o <<"<">>,
              Str_1_2_3 \o <<"<", "a">>, <<"a", "<">> \o Str_1_2_3}

\* the two-endpoint ranges the constructor accepts (high > low)
LhRanges ==
    {r \in [low : LhEndpoints, high : LhEndpoints] : op_gt(r.high, r.low)}

\* the versions the sequences are built from: 0.0.0 and 0.0.1 without and
\* with a one-identifier prerelease, and 0.1.0
SeqVersions ==
    {v \in Versions : /\ v.major = 0 /\ v.minor = 0 /\ v.patch \in {0, 1}
                      /\ Len(v.prerelease) <= 1}
        \cup {version(0, 1, 0, << >>)}

\* the sequences of at most MaxSeqLen versions
VersionSeqs == SeqsUpTo(SeqVersions, MaxSeqLen)

\* the ranges of both implementations over those versions
SeqRanges ==
    {range(v, k) : v \in SeqVersions, k \in kind_t}
        \cup {r \in [low : SeqVersions, high : SeqVersions] : op_gt(r.high, r.low)}

\* the versions without prerelease and the basis/kind ranges on them
ReleaseVersions == {v \in Versions : ~is_prerelease(v)}
ReleaseRanges == {range(v, k) : v \in ReleaseVersions, k \in kind_t}

(***************************************************************************)
(* The relational operators on two versions                                *)
(***************************************************************************)
InitVersion ==
    /\ va \in Versions
    /\ vb \in Versions
    /\ a = NoRange
    /\ b = NoRange
    /\ str = NoString
    /\ seq = NoSeq
    /\ op = "none"
    /\ res = NoResult

Relational ==
    /\ op = "none"
    /\ op' = "relational"
    /\ res' = [eq |-> op_eq(va, vb), ne |-> op_ne(va, vb),
               lt |-> op_lt(va, vb), gt |-> op_gt(va, vb),
               le |-> op_le(va, vb), ge |-> op_ge(va, vb)]
    /\ UNCHANGED <<a, b, va, vb, str, seq>>

NextVersion == Relational

SpecVersion == InitVersion /\ [][NextVersion]_vars

(***************************************************************************)
(* contains(version) of the basis/kind implementation                      *)
(***************************************************************************)
InitContains ==
    /\ a \in Ranges \cup ExampleRanges
    /\ va \in Versions \cup ExampleVersions
    /\ b = NoRange
    /\ vb = NoVersion
    /\ str = NoString
    /\ seq = NoSeq
    /\ op = "none"
    /\ res = NoResult

Contains ==
    /\ op = "none"
    /\ op' = "contains"
    /\ res' = contains(a, va)
    /\ UNCHANGED <<a, b, va, vb, str, seq>>

NextContains == Contains

SpecContains == InitContains /\ [][NextContains]_vars

(***************************************************************************)
(* Binary operations of the basis/kind implementation on two ranges        *)
(***************************************************************************)
InitRange ==
    /\ a \in Ranges \cup ExampleRanges
    /\ b \in Ranges \cup ExampleRanges
    /\ va = NoVersion
    /\ vb = NoVersion
    /\ str = NoString
    /\ seq = NoSeq
    /\ op = "none"
    /\ res = NoResult

Intersection ==
    /\ op = "none"
    /\ op' = "intersection"
    /\ res' = intersection(a, b)
    /\ UNCHANGED <<a, b, va, vb, str, seq>>

Union ==
    /\ op = "none"
    /\ op' = "union_"
    /\ res' = union_(a, b)
    /\ UNCHANGED <<a, b, va, vb, str, seq>>

NextRange == Intersection \/ Union

SpecRange == InitRange /\ [][NextRange]_vars

(***************************************************************************)
(* Binary operations of the basis/kind implementation on every pair of     *)
(* kinds, contains(range) included                                         *)
(***************************************************************************)
InitKinds ==
    /\ a \in KindRanges
    /\ b \in KindRanges
    /\ va = NoVersion
    /\ vb = NoVersion
    /\ str = NoString
    /\ seq = NoSeq
    /\ op = "none"
    /\ res = NoResult

ContainsRange ==
    /\ op = "none"
    /\ op' = "contains_range"
    /\ res' = contains_range(a, b)
    /\ UNCHANGED <<a, b, va, vb, str, seq>>

NextKinds == Intersection \/ Union \/ ContainsRange

SpecKinds == InitKinds /\ [][NextKinds]_vars

(***************************************************************************)
(* The range parsers of both implementations                               *)
(***************************************************************************)
InitParse ==
    /\ str \in RangeStrings \cup LtStrings
    /\ a = NoRange
    /\ b = NoRange
    /\ va = NoVersion
    /\ vb = NoVersion
    /\ seq = NoSeq
    /\ op = "none"
    /\ res = NoResult

Parse ==
    /\ op = "none"
    /\ op' = "parse"
    /\ res' = range_parse(str)
    /\ UNCHANGED <<a, b, va, vb, str, seq>>

LhParse ==
    /\ op = "none"
    /\ op' = "lh_parse"
    /\ res' = lh_parse(str)
    /\ UNCHANGED <<a, b, va, vb, str, seq>>

NextParse == Parse \/ LhParse

SpecParse == InitParse /\ [][NextParse]_vars

(***************************************************************************)
(* Binary operations of the two-endpoint implementation on two ranges      *)
(***************************************************************************)
InitLh ==
    /\ a \in LhRanges
    /\ b \in LhRanges
    /\ va = NoVersion
    /\ vb = NoVersion
    /\ str = NoString
    /\ seq = NoSeq
    /\ op = "none"
    /\ res = NoResult

LhUnion ==
    /\ op = "none"
    /\ op' = "lh_union"
    /\ res' = lh_union(a, b)
    /\ UNCHANGED <<a, b, va, vb, str, seq>>

LhDifference ==
    /\ op = "none"
    /\ op' = "lh_difference"
    /\ res' = lh_difference(a, b)
    /\ UNCHANGED <<a, b, va, vb, str, seq>>

NextLh == LhUnion \/ LhDifference

SpecLh == InitLh /\ [][NextLh]_vars

(***************************************************************************)
(* max_satisfying on a range and a sequence of versions                    *)
(***************************************************************************)
InitMax ==
    /\ a \in SeqRanges
    /\ b = NoRange
    /\ va = NoVersion
    /\ vb = NoVersion
    /\ str = NoString
    /\ seq \in VersionSeqs
    /\ op = "none"
    /\ res = NoResult

MaxSatisfying ==
    /\ op = "none"
    /\ op' = "max_satisfying"
    /\ res' = max_satisfying(a, seq)
    /\ UNCHANGED <<a, b, va, vb, str, seq>>

NextMax == MaxSatisfying

SpecMax == InitMax /\ [][NextMax]_vars

(***************************************************************************)
(* first_bad_version() of the basis/kind implementation                    *)
(***************************************************************************)
InitFirstBad ==
    /\ a \in Ranges \cup ExampleRanges
    /\ b = NoRange
    /\ va = NoVersion
    /\ vb = NoVersion
    /\ str = NoString
    /\ seq = NoSeq
    /\ op = "none"
    /\ res = NoResult

FirstBadVersion ==
    /\ op = "none"
    /\ op' = "first_bad_version"
    /\ res' = first_bad_version(a)
    /\ UNCHANGED <<a, b, va, vb, str, seq>>

NextFirstBad == FirstBadVersion

SpecFirstBad == InitFirstBad /\ [][NextFirstBad]_vars

(***************************************************************************)
(* Every operation of the two-endpoint implementation that builds a range  *)
(***************************************************************************)
InitBuild ==
    /\ \/ /\ str \in RangeStrings \cup LtStrings
          /\ a = everything /\ b = everything
          /\ va = NoVersion
       \/ /\ str = NoString
          /\ a \in LhRanges /\ b \in LhRanges
          /\ va = NoVersion
       \/ /\ str = NoString
          /\ a = everything /\ b = everything
          /\ va \in Versions
    /\ vb = NoVersion
    /\ seq = NoSeq
    /\ op = "none"
    /\ res = NoResult

Everything ==
    /\ op = "none"
    /\ op' = "everything"
    /\ res' = everything
    /\ UNCHANGED <<a, b, va, vb, str, seq>>

Exactly ==
    /\ op = "none"
    /\ op' = "exactly"
    /\ res' = exactly(va)
    /\ UNCHANGED <<a, b, va, vb, str, seq>>

LhIntersection ==
    /\ op = "none"
    /\ op' = "lh_intersection"
    /\ res' = lh_intersection(a, b)
    /\ UNCHANGED <<a, b, va, vb, str, seq>>

NextBuild ==
    LhParse \/ Everything \/ Exactly \/ LhIntersection \/ LhUnion \/ LhDifference

SpecBuild == InitBuild /\ [][NextBuild]_vars

(***************************************************************************)
(* The same call made on both implementations, on release operands         *)
(***************************************************************************)
InitBoth ==
    /\ a \in ReleaseRanges
    /\ \/ b \in ReleaseRanges /\ va = NoVersion
       \/ b = NoRange /\ va \in ReleaseVersions
    /\ vb = NoVersion
    /\ str = NoString
    /\ seq = NoSeq
    /\ op = "none"
    /\ res = NoResult

BothContains ==
    /\ op = "none"
    /\ op' = "both_contains"
    /\ res' = [basis |-> contains(a, va), lh |-> lh_contains(two_endpoint(a), va)]
    /\ UNCHANGED <<a, b, va, vb, str, seq>>

BothContainsRange ==
    /\ op = "none"
    /\ op' = "both_contains_range"
    /\ res' = [basis |-> contains_range(a, b),
               lh |-> returns(lh_contains_range(two_endpoint(a), two_endpoint(b)))]
    /\ UNCHANGED <<a, b, va, vb, str, seq>>

BothOverlaps ==
    /\ op = "none"
    /\ op' = "both_overlaps"
    /\ res' = [basis |-> overlaps(a, b),
               lh |-> lh_overlaps(two_endpoint(a), two_endpoint(b))]
    /\ UNCHANGED <<a, b, va, vb, str, seq>>

BothIntersection ==
    /\ op = "none"
    /\ op' = "both_intersection"
    /\ res' = [basis |-> intersection(a, b),
               lh |-> lh_intersection(two_endpoint(a), two_endpoint(b))]
    /\ UNCHANGED <<a, b, va, vb, str, seq>>

NextBoth == BothContains \/ BothContainsRange \/ BothOverlaps \/ BothIntersection

SpecBoth == InitBoth /\ [][NextBoth]_vars

(***************************************************************************)
(* Properties                                                              *)
(***************************************************************************)
\* C1: the relational operators of two versions are each the three-way
\* compare read one way; exactly one of a<b, a==b, a>b holds, !=, <= and >=
\* are the matching combinations of them, and a<b with b<c gives a<c.
C1_TotalOrder ==
    op = "relational" =>
        /\ res.lt = (compare(va, vb) = "less")
        /\ res.eq = (compare(va, vb) = "equivalent")
        /\ res.gt = (compare(va, vb) = "greater")
        /\ Cardinality({x \in {"lt", "eq", "gt"} : res[x]}) = 1
        /\ res.ne = ~res.eq
        /\ res.le = (res.lt \/ res.eq)
        /\ res.ge = (res.gt \/ res.eq)
        /\ \A c \in Versions : (res.lt /\ op_lt(vb, c)) => op_lt(va, c)

\* a prerelease below a release that is itself below some third version
C1_Witness ==
    /\ op = "relational"
    /\ res.lt
    /\ is_prerelease(va)
    /\ ~is_prerelease(vb)
    /\ \E c \in Versions : op_lt(vb, c) /\ op_lt(va, c)

\* C2: a range of any kind, the one parsed from "*" included, contains no
\* version whose prerelease-presence differs from that of its base version;
\* 1.2.3-alpha is contained neither by +1.2.3 nor by +1.2.0.
C2_PrereleaseMismatch ==
    /\ (op = "contains" /\ is_prerelease(va) # is_prerelease(a.base_version))
            => res = FALSE
    /\ (op = "contains" /\ is_prerelease(va) /\ a = R_star) => res = FALSE
    /\ (op = "contains" /\ va = V_1_2_3_alpha /\ a \in {R_plus_1_2_3, R_plus_1_2_0})
            => res = FALSE

\* a prerelease at or above the base of an open-ended release range
C2_Witness ==
    /\ op = "contains"
    /\ a.kind = anything_greater
    /\ ~is_prerelease(a.base_version)
    /\ is_prerelease(va)
    /\ op_ge(va, a.base_version)
    /\ res = FALSE

\* C3: for a range of kind exact, same_minor or same_major and a version
\* with the prerelease-presence of its base, contains(version) holds exactly
\* when base_version <= version < first_bad_version.
C3_FirstBadVersionBoundsContains ==
    (/\ op = "contains"
     /\ a.kind # anything_greater
     /\ is_prerelease(va) = is_prerelease(a.base_version))
        => (res <=> (/\ op_le(a.base_version, va)
                     /\ op_lt(va, first_bad_version(a))))

\* the release versions whose components are below component_max
SmallReleases ==
    {v \in Versions : /\ ~is_prerelease(v)
                      /\ v.major < component_max
                      /\ v.minor < component_max
                      /\ v.patch < component_max}

\* the exclusive upper bound of a parsed range, in either implementation
upper_bound(r) == IF op = "parse" THEN first_bad_version(r) ELSE r.high

\* C4: for a release M.m.p with components below component_max, the range
\* parsed from "M.m.p" or "=M.m.p" has the exclusive upper bound (M, m, p+1),
\* the one from "~M.m.p" has (M, m+1, 0) and the one from "^M.m.p" has
\* (M+1, 0, 0), in both implementations.
C4_ParsedUpperBound ==
    op \in {"parse", "lh_parse"} =>
        \A v \in SmallReleases :
            /\ (str = to_string(v) \/ str = <<"=">> \o to_string(v))
                  => /\ res.ok
                     /\ upper_bound(res.value)
                            = version(v.major, v.minor, v.patch + 1, << >>)
            /\ str = <<"~">> \o to_string(v)
                  => /\ res.ok
                     /\ upper_bound(res.value)
                            = version(v.major, v.minor + 1, 0, << >>)
            /\ str = <<"^">> \o to_string(v)
                  => /\ res.ok
                     /\ upper_bound(res.value) = version(v.major + 1, 0, 0, << >>)

\* "~M.m.p" with a non-zero patch parsed by the basis/kind parser
C4_Witness ==
    /\ op = "parse"
    /\ \E v \in SmallReleases : v.patch > 0 /\ str = <<"~">> \o to_string(v)
    /\ res.ok
    /\ first_bad_version(res.value).patch = 0

\* C5: a.intersection(b) and b.intersection(a) are both empty or both hold
\* ranges that are equal under operator==.
C5_IntersectionCommutes ==
    op = "intersection" => optional_eq(res, intersection(b, a))

\* two ranges of different kinds on bases that compare equal
C5_Witness ==
    /\ op = "intersection"
    /\ op_eq(a.base_version, b.base_version)
    /\ a.kind # b.kind
    /\ res.has_value

\* C6: a returned intersection contains exactly the versions both operands
\* contain, and when none is returned no version is contained by both.
C6_IntersectionIsSetIntersection ==
    op = "intersection" =>
        IF res.has_value
        THEN \A v \in Versions :
                contains(res.value, v) <=> (contains(a, v) /\ contains(b, v))
        ELSE \A v \in Versions : ~(contains(a, v) /\ contains(b, v))

\* C7: a.intersection(b) is empty exactly when a.overlaps(b) is false.
C7_EmptyIntersectionIffNoOverlap ==
    op = "intersection" => (~res.has_value <=> ~overlaps(a, b))

\* C8: a.union_(b) and b.union_(a) are both empty or both hold ranges that
\* are equal under operator==.
C8_UnionCommutes ==
    op = "union_" => optional_eq(res, union_(b, a))

\* the operand union_ works from: the one with the lower base version, the
\* receiver when the bases compare equal
lower(x, y) == IF op_lt(y.base_version, x.base_version) THEN y ELSE x
upper(x, y) == IF op_lt(y.base_version, x.base_version) THEN x ELSE y

\* C9: when the operand with the lower base version is of a finite kind and
\* the base version of the other one is strictly greater than its
\* first_bad_version, union_ returns no range; ^1.6.2 has no union with
\* 4.1.2, nor with ~2.0.0.
C9_UnionTooHigh ==
    /\ (/\ op = "union_"
        /\ lower(a, b).kind # anything_greater
        /\ op_gt(upper(a, b).base_version, first_bad_version(lower(a, b))))
            => ~res.has_value
    /\ (op = "union_" /\ a = R_caret_1_6_2 /\ b \in {R_4_1_2, R_tilde_2_0_0})
            => ~res.has_value

\* an exact range and an open-ended one a whole minor version above it
C9_Witness ==
    /\ op = "union_"
    /\ a.kind = anything_greater
    /\ b.kind = exact
    /\ ~is_prerelease(a.base_version)
    /\ ~is_prerelease(b.base_version)
    /\ b.base_version.patch # component_max
    /\ op_gt(a.base_version, first_bad_version(b))
    /\ ~res.has_value

\* C10: a returned union contains exactly the versions that one of the
\* operands contains.
C10_UnionIsSetUnion ==
    (op = "union_" /\ res.has_value) =>
        \A v \in Versions :
            contains(res.value, v) <=> (contains(a, v) \/ contains(b, v))

\* a version in the gap between two ranges that neither overlap nor touch
in_gap(x, y, v) ==
    \/ op_le(x.high, v) /\ op_lt(v, y.low)
    \/ op_le(y.high, v) /\ op_lt(v, x.low)

C12_ContainsRangeIsSubset ==
    (op = "contains_range" /\ ~terminated(res)) =>
        /\ res.value <=> (\A v \in Versions : contains(b, v) => contains(a, v))
        /\ contains_range(a, a) = returns(TRUE)

\* the sequence s read in the order p
permuted(s, p) == [i \in 1..Len(s) |-> s[p[i]]]

\* C13: for every range r and finite sequence of versions, max_satisfying
\* returns empty exactly when no element satisfies r.contains, otherwise an
\* element that r contains and that is >= every element r contains; the
\* result compares equal for every permutation of the sequence, and the
\* sequence is left unchanged.
C13_MaxSatisfying ==
    /\ [](op = "max_satisfying" =>
            LET sat == {i \in 1..Len(seq) : range_contains(a, seq[i])}
            IN  /\ ~res.has_value <=> sat = {}
                /\ res.has_value =>
                      /\ \E i \in sat : seq[i] = res.value
                      /\ \A i \in sat : op_ge(res.value, seq[i])
                /\ \A p \in Permutations(1..Len(seq)) :
                      LET other == max_satisfying(a, permuted(seq, p))
                      IN  /\ other.has_value = res.has_value
                          /\ res.has_value => op_eq(other.value, res.value))
    /\ [][op' = "max_satisfying" => seq' = seq]_vars

\* the greatest satisfying element comes first and is followed by a smaller
\* satisfying element and by an element the range does not contain
C13_Witness ==
    /\ op = "max_satisfying"
    /\ Len(seq) = MaxSeqLen
    /\ res.has_value
    /\ res.value = seq[1]
    /\ \E i \in 2..Len(seq) : range_contains(a, seq[i]) /\ op_lt(seq[i], seq[1])
    /\ \E i \in 2..Len(seq) : ~range_contains(a, seq[i])

\* a range prefix character
isprefix(c) == c = "=" \/ c = "~" \/ c = "^" \/ c = "+"

\* C14: range::parse fails with invalid_range carrying the original string
\* when the input is empty, or is not "*" and begins with a character that
\* is no prefix and no digit, or is a prefix character with nothing after
\* it; no range is produced in these cases.  (The two-endpoint parser is
\* taken on the inputs it hands to parse_restricted.)
C14_InvalidRangeInputs ==
    (/\ op = "parse" \/ (op = "lh_parse" /\ find_lt(str) = 0)
     /\ \/ str = << >>
        \/ str # << >> /\ str # <<"*">> /\ ~isprefix(Head(str)) /\ ~isdigit(Head(str))
        \/ Len(str) = 1 /\ isprefix(Head(str)))
        => res = invalid_range(str)

\* C15: the two-endpoint parse of "A<B" with A and B valid version strings
\* gives the range with low = A and high = B when B > A and fails with
\* invalid_range carrying the string when B <= A, so no range with
\* high <= low comes out of an "A<B" input.
C15_ParseTwoEndpoints ==
    (op = "lh_parse" /\ find_lt(str) # 0) =>
        /\ \A A \in LhEndpoints : \A B \in LhEndpoints :
              str = lt_string(A, B) =>
                  /\ op_gt(B, A) => res = parsed(lh_range(A, B))
                  /\ op_le(B, A) => res = invalid_range(str)
        /\ res.ok => op_gt(res.value.high, res.value.low)

\* "A<A" is refused
C15_Witness ==
    /\ op = "lh_parse"
    /\ \E A \in LhEndpoints : str = lt_string(A, A) /\ is_prerelease(A)
    /\ res = invalid_range(str)

\* whether a part of a difference is there and contains v
part_contains(part, v) == part.has_value /\ lh_contains(part.value, v)

\* C16: in the two-endpoint implementation a version is contained by the
\* before part or the after part of a.difference(b) exactly when a contains
\* it and b does not; both parts are empty exactly when b.contains(a).
C16_DifferenceIsSetDifference ==
    op = "lh_difference" =>
        /\ ~terminated(res)
        /\ \A v \in LhEndpoints :
              (part_contains(res.before, v) \/ part_contains(res.after, v))
                  <=> (lh_contains(a, v) /\ ~lh_contains(b, v))
        /\ (~res.before.has_value /\ ~res.after.has_value) <=> lh_contains_range(b, a)

\* b lies strictly inside a: both parts are there
C16_Witness ==
    /\ op = "lh_difference"
    /\ op_lt(a.low, b.low)
    /\ op_lt(b.high, a.high)
    /\ res.before.has_value
    /\ res.after.has_value

\* C17: when a and b do not overlap, a.difference(b) returns all of a in
\* exactly one part and leaves the other empty: before when a.low < b.low,
\* after otherwise, where a.low > b.low holds and the assertion does not
\* fail; in every case each version of before is below b.low and each
\* version of after is at or above b.high.
C17_DifferenceWithoutOverlap ==
    op = "lh_difference" =>
        /\ ~terminated(res)
        /\ ~lh_overlaps(a, b) =>
              /\ op_lt(a.low, b.low) =>
                    res = range_difference(some(a), nullopt)
              /\ ~op_lt(a.low, b.low) =>
                    /\ op_gt(a.low, b.low)
                    /\ res = range_difference(nullopt, some(a))
        /\ \A v \in LhEndpoints :
              /\ part_contains(res.before, v) => op_lt(v, b.low)
              /\ part_contains(res.after, v) => op_ge(v, b.high)

\* a lies wholly above b and comes back as the after part
C17_Witness ==
    /\ op = "lh_difference"
    /\ ~lh_overlaps(a, b)
    /\ op_gt(a.low, b.high)
    /\ res = range_difference(nullopt, some(a))

\* C18: in the basis/kind implementation union_ and contains(range) return
\* before first_bad_version() is evaluated on an anything_greater operand,
\* for every pair of kinds, so its failing assertion is not reached from
\* them, and intersection does not reach its "Unreachable" assertion.
C18_NoAssertionReached ==
    op \in {"intersection", "union_", "contains_range"} => ~terminated(res)

\* contains(range) with a finite *this and an open-ended `other` above its
\* base returns false without asking for a first bad version
C18_Witness ==
    /\ op = "contains_range"
    /\ a.kind # anything_greater
    /\ b.kind = anything_greater
    /\ op_le(a.base_version, b.base_version)
    /\ res = returns(FALSE)

\* C19: for every range of kind exact, same_minor or same_major whose base
\* components lie in 0..component_max, first_bad_version() is strictly
\* greater than the base and not greater than max_version.
C19_FirstBadVersionInBounds ==
    (op = "first_bad_version" /\ a.kind # anything_greater) =>
        /\ op_gt(res, a.base_version)
        /\ op_le(res, max_version)

\* C20 as stated: first_bad_version() of a same_minor range keeps the
\* prerelease of the base: for a base M.m.p-pre the result is (M, m+1, 0)
\* with prerelease pre.
C20_SameMinorKeepsPrerelease ==
    (op = "first_bad_version" /\ a.kind = same_minor_version) =>
        res = version(a.base_version.major, int_increment(a.base_version.minor), 0,
                      a.base_version.prerelease)

\* C20 (amended): first_bad_version() of a same_minor range drops the
\* prerelease of the base: patch is set to zero, the prerelease is emptied
\* and minor is incremented as an int, so for a base M.m.p-pre the result
\* is the release (M, m+1, 0).
C20_SameMinorDropsPrerelease ==
    (op = "first_bad_version" /\ a.kind = same_minor_version) =>
        /\ res.major = a.base_version.major
        /\ a.base_version.minor < component_max => res.minor = a.base_version.minor + 1
        /\ a.base_version.minor = component_max => res.minor = int_min
        /\ res.patch = 0
        /\ res.prerelease = << >>

\* a same_minor range on a prerelease base with a patch other than zero
C20_Witness ==
    /\ op = "first_bad_version"
    /\ a.kind = same_minor_version
    /\ is_prerelease(a.base_version)
    /\ a.base_version.patch # 0
    /\ a.base_version.minor # component_max
    /\ ~is_prerelease(res)

\* an optional range that is empty or satisfies the constructor's assertion
absent_or_valid(o) == o.has_value => ctor_assertion(o.value)

\* C21: in the two-endpoint implementation every range that is built has
\* low < high: the constructor's assertion holds for the ranges built by
\* parse and parse_restricted (every prefix before every version, "+"
\* before max_version included), by everything and exactly, by
\* intersection and union_, and for the parts of difference.
C21_BuiltRangesValid ==
    /\ (op = "lh_parse" /\ res.ok) => ctor_assertion(res.value)
    /\ op \in {"everything", "exactly"} => ctor_assertion(res)
    /\ op \in {"lh_intersection", "lh_union"} => absent_or_valid(res)
    /\ (op = "lh_difference" /\ ~terminated(res)) =>
          absent_or_valid(res.before) /\ absent_or_valid(res.after)

\* C22: with each basis/kind range on a release base taken as the
\* two-endpoint range [base, first_bad_version) ([base, max_version) for
\* anything_greater), the two implementations agree: contains(v) for every
\* release v below max_version, contains(range) and overlaps give the same
\* boolean, and intersection is empty in both or the basis/kind result
\* is the two-endpoint result.
C22_ImplementationsAgree ==
    /\ (op = "both_contains" /\ op_lt(va, max_version)) => res.basis = res.lh
    /\ op \in {"both_contains_range", "both_overlaps"} => res.basis = res.lh
    /\ op = "both_intersection" =>
          \/ ~res.basis.has_value /\ ~res.lh.has_value
          \/ /\ res.basis.has_value /\ res.lh.has_value
             /\ two_endpoint(res.basis.value) = res.lh.value

====
